---- MODULE Spec2Model ----
(***************************************************************************)
(* Model of the parallel traversal engine of fdu: the work-stealing        *)
(* WalkWorker (src/src/core/worker.rs) and the seeding done by             *)
(* Multithreaded::walk (src/src/core/walker.rs).                           *)
(*                                                                         *)
(* One atomic step holds at most one access to a shared object (a deque,   *)
(* the injector, the termination counter); thread-local work is merged     *)
(* into the step that precedes it.                                         *)
(***************************************************************************)
EXTENDS Integers, Sequences, FiniteSets, TLC

(***************************************************************************)
(* Bounds of the model.                                                    *)
(***************************************************************************)
MaxWorkers == 2
MaxDepthOpt == 1

(***************************************************************************)
(* Constants of run_loop's staged backoff.                                 *)
(***************************************************************************)
SpinLast == 10
SyncCycle == 11
YieldLast == 50
ResetCycle == 12

(***************************************************************************)
(* The filesystem.  A tree is a sequence of nodes, node 1 is the root.     *)
(* kind: "dir"      directory that read_dir opens                          *)
(*       "nodir"    directory that read_dir fails to open                  *)
(*       "file"     regular file, blocks = st_blocks                       *)
(*       "symlink" "fifo" "socket" "blockdev" "chardev": special files     *)
(*       "nostat"   non-directory whose symlink_metadata fails             *)
(*       "notype"   entry whose file_type() fails                          *)
(*       "badent"   entry that the read_dir iterator yields as Err; the    *)
(*                  iterator (std::fs::ReadDir) is at its end after an Err *)
(*       "missing"  a root path that does not exist                        *)
(* kids: the entries of a directory in the order read_dir yields them.     *)
(***************************************************************************)
Node(k, ks, b) == [kind |-> k, kids |-> ks, blocks |-> b]

TreeFork ==
    << Node("dir", <<2, 3>>, 8), Node("dir", <<4>>, 8),
       Node("dir", <<>>, 8), Node("file", <<>>, 8) >>
TreeMixed ==
    << Node("dir", <<2, 3, 4, 5>>, 8), Node("file", <<>>, 16),
       Node("fifo", <<>>, 1), Node("symlink", <<>>, 2),
       Node("nostat", <<>>, 4) >>
TreeChain ==
    << Node("dir", <<2>>, 8), Node("dir", <<3, 4>>, 8),
       Node("dir", <<>>, 8), Node("file", <<>>, 4) >>
TreeEmpty ==
    << Node("dir", <<>>, 8) >>
TreeErrs ==
    << Node("dir", <<2, 3, 4, 5>>, 8), Node("nodir", <<>>, 8),
       Node("notype", <<>>, 2), Node("badent", <<>>, 4),
       Node("file", <<>>, 8) >>
\* the root path is a 4096-byte regular file
TreeFile ==
    << Node("file", <<>>, 8) >>
\* the root path does not exist
TreeMissing ==
    << Node("missing", <<>>, 0) >>

Trees == {TreeFork, TreeMixed, TreeChain, TreeEmpty, TreeErrs, TreeFile,
          TreeMissing}

Root == 1
MaxNodes == 5
Nodes == 1..MaxNodes

DirKinds == {"dir", "nodir"}

\* FileType::is_dir of a directory entry.
is_dir_type(kind) == kind \in DirKinds

is_special_file_nolink(kind) ==
    \/ kind = "blockdev"
    \/ kind = "chardev"
    \/ kind = "fifo"
    \/ kind = "socket"

\* worker.rs is_special_file
is_special_file(kind) ==
    \/ kind = "blockdev"
    \/ kind = "chardev"
    \/ kind = "fifo"
    \/ kind = "socket"
    \/ kind = "symlink"

counts_as_file_regular(kind) == kind = "file"

\* process_job: the entries that take the else arm of `if ft.is_dir()`
counts_as_file(kind) == ~is_dir_type(kind)

\* Job::new
Job(node, depth, isdir) == [node |-> node, depth |-> depth, is_dir |-> isdir]
NoJob == Job(0, 0, FALSE)

VARIABLES
    tree,               \* the filesystem walked
    max_depth,          \* Option<usize>: {} is None, {m} is Some(m)
    num_workers,        \* N
    injector,           \* Injector<Job>, a FIFO
    inner,              \* inner[w]: the deque of worker w (Worker::new_fifo)
    global_job_counter, \* the AtomicI64 `termination`
    pc,                 \* position of each worker in run_loop
    idle_cycles,
    local_work_delta,
    job,                \* the job a worker holds
    entries,            \* index of the next entry of the listing in process_job
    victim,             \* index reached in steal_from_victims / should_terminate
    loaded,             \* value last loaded from the counter by should_terminate
    dirs_processed,
    files_processed,
    errors_count,
    total_blocks,
    taken,              \* history: taken[n] = times find_work returned node n
    listed,             \* history: listed[n] = times read_dir opened node n
    panicked,           \* history: the set of workers that panicked
    walk_pc,            \* position of Multithreaded::walk after the spawn
    joined,             \* number of processor handles joined so far
    total_size,         \* walk's running sum
    walk_result         \* what walk returned: "none" until it returns

vars == << tree, max_depth, num_workers, injector, inner, global_job_counter,
           pc, idle_cycles, local_work_delta, job, entries, victim, loaded,
           dirs_processed, files_processed, errors_count, total_blocks,
           taken, listed, panicked, walk_pc, joined, total_size,
           walk_result >>

Workers == 0..(num_workers - 1)

config == << tree, max_depth, num_workers >>
stats == << dirs_processed, files_processed, errors_count, total_blocks >>
coord == << walk_pc, joined, total_size, walk_result >>

(***************************************************************************)
(* Multithreaded::walk up to the spawn of the workers, WalkWorker::new.    *)
(***************************************************************************)
InitCounter == 1

walk_start(threads) ==
    /\ tree \in Trees
    /\ max_depth \in {{}} \cup {{m} : m \in 1..MaxDepthOpt}
    /\ num_workers \in threads
    /\ injector = << Job(Root, 0, TRUE) >>
    /\ inner = [w \in Workers |-> << >>]
    /\ global_job_counter = InitCounter
    /\ pc = [w \in Workers |-> "find"]
    /\ idle_cycles = [w \in Workers |-> 0]
    /\ local_work_delta = [w \in Workers |-> 0]
    /\ job = [w \in Workers |-> NoJob]
    /\ entries = [w \in Workers |-> 0]
    /\ victim = [w \in Workers |-> 0]
    /\ loaded = [w \in Workers |-> InitCounter]
    /\ dirs_processed = [w \in Workers |-> 0]
    /\ files_processed = [w \in Workers |-> 0]
    /\ errors_count = [w \in Workers |-> 0]
    /\ total_blocks = [w \in Workers |-> 0]
    /\ taken = [n \in Nodes |-> 0]
    /\ listed = [n \in Nodes |-> 0]
    /\ panicked = {}
    /\ walk_pc = "workers"
    /\ joined = 0
    /\ total_size = 0
    /\ walk_result = "none"

Init == walk_start(1..MaxWorkers)

(***************************************************************************)
(* Helpers of the worker's steps.                                          *)
(***************************************************************************)
Min(a, b) == IF a < b THEN a ELSE b
Max(a, b) == IF a > b THEN a ELSE b

SkipSelf_never(w, i) == i

\* steal_from_victims: the first index >= i that is not the worker's own.
SkipSelf(w, i) == IF i = w THEN i + 1 ELSE i

needs_sync_positive(d) == d > 0

\* run_loop, cycle 11: the test that guards the fetch_add
needs_sync(d) == d # 0

after_steal_peek(q) == q

\* Stealer::steal, Steal::Success: what is left in the victim's deque
after_steal(q) == Tail(q)

\* Some(job) arm of run_loop: the worker holds j and resets its idle counter.
GotJob(w, j) ==
    /\ job' = [job EXCEPT ![w] = j]
    /\ idle_cycles' = [idle_cycles EXCEPT ![w] = 0]
    /\ victim' = [victim EXCEPT ![w] = 0]
    /\ taken' = [taken EXCEPT ![j.node] = @ + 1]
    /\ pc' = [pc EXCEPT ![w] = "job"]

\* None arm of run_loop: idle_cycles += 1 and the staged backoff up to the
\* next access to shared state (the fetch_add of cycle 11, the counter load
\* of should_terminate from cycle 12 on).
NoWork(w) ==
    LET c == idle_cycles[w] + 1 IN
    /\ idle_cycles' = [idle_cycles EXCEPT ![w] = c]
    /\ victim' = [victim EXCEPT ![w] = 0]
    /\ pc' = [pc EXCEPT ![w] =
                 IF c <= SpinLast THEN "find"
                 ELSE IF c = SyncCycle
                      THEN (IF needs_sync(local_work_delta[w])
                            THEN "sync" ELSE "find")
                      ELSE "term"]

\* should_terminate returned false: cycles 12..=50 loop again, later cycles
\* sleep and set idle_cycles back to 12.
NotTerminated(w) ==
    /\ idle_cycles' = [idle_cycles EXCEPT ![w] =
                          IF @ > YieldLast THEN ResetCycle ELSE @]
    /\ victim' = [victim EXCEPT ![w] = 0]
    /\ pc' = [pc EXCEPT ![w] = "find"]

\* should_terminate returned true: break, run_loop returns WorkerResult.
Terminated(w) ==
    /\ idle_cycles' = [idle_cycles EXCEPT ![w] = 0]
    /\ victim' = [victim EXCEPT ![w] = 0]
    /\ pc' = [pc EXCEPT ![w] = "done"]

\* process_file: Ok or Err of symlink_metadata, and the blocks it adds.
process_file_ok(n) == tree[n].kind \notin {"nostat", "missing"}
process_file_blocks_all(n) ==
    IF process_file_ok(n) THEN tree[n].blocks ELSE 0

process_file_blocks(n) ==
    IF process_file_ok(n) /\ ~is_special_file(tree[n].kind)
    THEN tree[n].blocks ELSE 0

read_dir_ok_always(n) == TRUE

\* process_job: fs::read_dir(&job.path) is Ok
read_dir_ok(n) == tree[n].kind = "dir"

\* process_job: the items that 'for entry in entries' goes through: the
\* entries of the directory up to the first Err, after which ReadDir yields
\* nothing more
read_dir_items(n) ==
    LET ks == tree[n].kids
        errs == {i \in 1..Len(ks) : tree[ks[i]].kind = "badent"}
    IN IF errs = {} THEN ks
       ELSE SubSeq(ks, 1, CHOOSE i \in errs : \A k \in errs : i <= k)

depth_exceeded_inclusive(j) == \E max \in max_depth : j.depth >= max

\* the depth check at the head of process_job
depth_exceeded(j) == \E max \in max_depth : j.depth > max

counter_is_zero_lenient(c) == c >= 0

\* the first comparison of should_terminate
counter_is_zero(c) == c = 0

\* steal_from_global: the batch limit, and the tasks the injector hands out
\* (half of its length, at most the limit).
batch_size(len) == Min(Max(len \div num_workers, 1), 32)
batch_taken(len) == Min((len + 1) \div 2, batch_size(len))

(***************************************************************************)
(* find_work, step 1: self.inner.pop() on a FIFO worker queue.             *)
(***************************************************************************)
FindLocal(w) ==
    /\ pc[w] = "find"
    /\ IF inner[w] # << >>
       THEN /\ inner' = [inner EXCEPT ![w] = Tail(@)]
            /\ GotJob(w, Head(inner[w]))
       ELSE /\ pc' = [pc EXCEPT ![w] =
                         IF SkipSelf(w, 0) < num_workers
                         THEN "victims" ELSE "global"]
            /\ victim' = [victim EXCEPT ![w] = SkipSelf(w, 0)]
            /\ UNCHANGED << inner, job, idle_cycles, taken >>
    /\ UNCHANGED << config, injector, global_job_counter, local_work_delta,
                    entries, loaded, stats, listed, panicked, coord >>

NextVictim_break(w) ==
    /\ victim' = [victim EXCEPT ![w] = 0]
    /\ pc' = [pc EXCEPT ![w] = "global"]

\* steal_from_victims moves on to the next stealer, or steal_from_global.
NextVictim(w) ==
    LET i == SkipSelf(w, victim[w] + 1) IN
    /\ victim' = [victim EXCEPT ![w] = IF i < num_workers THEN i ELSE 0]
    /\ pc' = [pc EXCEPT ![w] = IF i < num_workers THEN "victims" ELSE "global"]

(***************************************************************************)
(* find_work, step 2: one stealer.steal() of steal_from_victims.           *)
(***************************************************************************)
StealVictim(w) ==
    /\ pc[w] = "victims"
    /\ LET v == victim[w] IN
       IF inner[v] # << >>
       THEN /\ inner' = [inner EXCEPT ![v] = after_steal(@)]
            /\ GotJob(w, Head(inner[v]))
       ELSE /\ NextVictim(w)
            /\ UNCHANGED << inner, job, idle_cycles, taken >>
    /\ UNCHANGED << config, injector, global_job_counter, local_work_delta,
                    entries, loaded, stats, listed, panicked, coord >>

\* Steal::Retry: the steal lost a race against another taker of the same
\* queue (its owner about to pop, or another thief), the worker moves on.
Contended(w, v) ==
    \E u \in Workers \ {w} :
        \/ u = v /\ pc[u] = "find"
        \/ pc[u] = "victims" /\ victim[u] = v

StealRetry(w) ==
    /\ pc[w] = "victims"
    /\ inner[victim[w]] # << >>
    /\ Contended(w, victim[w])
    /\ NextVictim(w)
    /\ UNCHANGED << config, injector, inner, global_job_counter,
                    local_work_delta, job, idle_cycles, entries, loaded,
                    stats, taken, listed, panicked, coord >>

(***************************************************************************)
(* find_work, step 3: steal_from_global.  The Retry arm loops until the    *)
(* injector answers Success or Empty.  On Empty find_work returns None and *)
(* run_loop counts an idle cycle.                                          *)
(***************************************************************************)
StealGlobal(w) ==
    /\ pc[w] = "global"
    /\ IF injector # << >>
       THEN LET k == batch_taken(Len(injector)) IN
            /\ injector' = SubSeq(injector, k + 1, Len(injector))
            /\ inner' = [inner EXCEPT ![w] = @ \o SubSeq(injector, 2, k)]
            /\ GotJob(w, Head(injector))
       ELSE /\ NoWork(w)
            /\ UNCHANGED << injector, inner, job, taken >>
    /\ UNCHANGED << config, global_job_counter, local_work_delta, entries,
                    loaded, stats, listed, panicked, coord >>

SyncDelta_keep(w) ==
    /\ pc[w] = "sync"
    /\ global_job_counter' = global_job_counter + local_work_delta[w]
    /\ pc' = [pc EXCEPT ![w] = "find"]
    /\ UNCHANGED << config, injector, inner, idle_cycles, local_work_delta,
                    job, entries, victim, loaded, stats, taken, listed,
                    panicked, coord >>

(***************************************************************************)
(* run_loop, idle cycle 11: publish local_work_delta.                      *)
(***************************************************************************)
SyncDelta(w) ==
    /\ pc[w] = "sync"
    /\ global_job_counter' = global_job_counter + local_work_delta[w]
    /\ local_work_delta' = [local_work_delta EXCEPT ![w] = 0]
    /\ pc' = [pc EXCEPT ![w] = "find"]
    /\ UNCHANGED << config, injector, inner, idle_cycles, job, entries,
                    victim, loaded, stats, taken, listed, panicked, coord >>

(***************************************************************************)
(* should_terminate, one read per step, short-circuit on the first false.  *)
(***************************************************************************)
TermCounter(w) ==
    /\ pc[w] = "term"
    /\ loaded' = [loaded EXCEPT ![w] = global_job_counter]
    /\ IF counter_is_zero(global_job_counter)
       THEN /\ pc' = [pc EXCEPT ![w] = "term_inner"]
            /\ UNCHANGED << idle_cycles, victim >>
       ELSE NotTerminated(w)
    /\ UNCHANGED << config, injector, inner, global_job_counter,
                    local_work_delta, job, entries, stats, taken, listed,
                    panicked, coord >>

TermInner(w) ==
    /\ pc[w] = "term_inner"
    /\ IF inner[w] = << >>
       THEN /\ pc' = [pc EXCEPT ![w] = "term_injector"]
            /\ UNCHANGED << idle_cycles, victim >>
       ELSE NotTerminated(w)
    /\ UNCHANGED << config, injector, inner, global_job_counter,
                    local_work_delta, job, entries, loaded, stats, taken,
                    listed, panicked, coord >>

TermInjector(w) ==
    /\ pc[w] = "term_injector"
    /\ IF injector = << >>
       THEN /\ pc' = [pc EXCEPT ![w] = "term_stealers"]
            /\ victim' = [victim EXCEPT ![w] = 0]
            /\ UNCHANGED idle_cycles
       ELSE NotTerminated(w)
    /\ UNCHANGED << config, injector, inner, global_job_counter,
                    local_work_delta, job, entries, loaded, stats, taken,
                    listed, panicked, coord >>

TermStealers_first(w) ==
    /\ pc[w] = "term_stealers"
    /\ IF Len(inner[victim[w]]) = 0
       THEN Terminated(w)
       ELSE NotTerminated(w)
    /\ UNCHANGED << config, injector, inner, global_job_counter,
                    local_work_delta, job, entries, loaded, stats, taken,
                    listed, panicked, coord >>

TermStealers(w) ==
    /\ pc[w] = "term_stealers"
    /\ IF Len(inner[victim[w]]) = 0
       THEN IF victim[w] + 1 < num_workers
            THEN /\ victim' = [victim EXCEPT ![w] = @ + 1]
                 /\ UNCHANGED << pc, idle_cycles >>
            ELSE Terminated(w)
       ELSE NotTerminated(w)
    /\ UNCHANGED << config, injector, inner, global_job_counter,
                    local_work_delta, job, entries, loaded, stats, taken,
                    listed, panicked, coord >>

(***************************************************************************)
(* process_job up to the listing, and the Err arm of run_loop.             *)
(***************************************************************************)
JobDone(w) ==
    /\ job' = [job EXCEPT ![w] = NoJob]
    /\ entries' = [entries EXCEPT ![w] = 0]
    /\ pc' = [pc EXCEPT ![w] = "find"]

ProcessJob(w) ==
    /\ pc[w] = "job"
    /\ LET j == job[w] IN
       IF depth_exceeded(j)
       THEN \* return Err before the job is counted as consumed
            /\ errors_count' = [errors_count EXCEPT ![w] = @ + 1]
            /\ JobDone(w)
            /\ UNCHANGED << local_work_delta, files_processed, total_blocks,
                            dirs_processed, listed >>
       ELSE /\ local_work_delta' = [local_work_delta EXCEPT ![w] = @ - 1]
            /\ IF ~j.is_dir
               THEN /\ files_processed' = [files_processed EXCEPT ![w] = @ + 1]
                    /\ total_blocks' = [total_blocks EXCEPT ![w] =
                                           @ + process_file_blocks(j.node)]
                    /\ errors_count' = [errors_count EXCEPT ![w] =
                          IF process_file_ok(j.node) THEN @ ELSE @ + 1]
                    /\ JobDone(w)
                    /\ UNCHANGED << dirs_processed, listed >>
               ELSE IF read_dir_ok(j.node)
                    THEN /\ listed' = [listed EXCEPT ![j.node] = @ + 1]
                         /\ IF read_dir_items(j.node) = << >>
                            THEN /\ dirs_processed' =
                                      [dirs_processed EXCEPT ![w] = @ + 1]
                                 /\ JobDone(w)
                            ELSE /\ entries' = [entries EXCEPT ![w] = 1]
                                 /\ pc' = [pc EXCEPT ![w] = "entry"]
                                 /\ UNCHANGED << job, dirs_processed >>
                         /\ UNCHANGED << files_processed, total_blocks,
                                         errors_count >>
                    ELSE \* read_dir failed
                         /\ errors_count' = [errors_count EXCEPT ![w] = @ + 1]
                         /\ JobDone(w)
                         /\ UNCHANGED << files_processed, total_blocks,
                                         dirs_processed, listed >>
    /\ UNCHANGED << config, injector, inner, global_job_counter, idle_cycles,
                    victim, loaded, taken, panicked, coord >>

push_queue_first(w) == 0

\* process_job: self.inner.push(new_job), the queue the pushing worker owns
push_queue(w) == w

(***************************************************************************)
(* process_job: one entry of the listing; after the last one,              *)
(* dirs_processed += 1 and return Ok.                                      *)
(***************************************************************************)
ProcessEntry(w) ==
    /\ pc[w] = "entry"
    /\ LET j == job[w]
           e == read_dir_items(j.node)[entries[w]]
           k == tree[e].kind
           last == entries[w] = Len(read_dir_items(j.node))
       IN
       /\ IF k = "badent"
          THEN /\ errors_count' = [errors_count EXCEPT ![w] = @ + 1]
               /\ UNCHANGED << inner, local_work_delta, files_processed,
                               total_blocks >>
          ELSE IF k = "notype"
          THEN UNCHANGED << inner, local_work_delta, files_processed,
                            total_blocks, errors_count >>
          ELSE IF is_dir_type(k)
          THEN /\ inner' = [inner EXCEPT ![push_queue(w)] =
                               Append(@, Job(e, j.depth + 1, TRUE))]
               /\ local_work_delta' = [local_work_delta EXCEPT ![w] = @ + 1]
               /\ UNCHANGED << files_processed, total_blocks, errors_count >>
          ELSE /\ files_processed' = [files_processed EXCEPT ![w] =
                                         IF counts_as_file(k) THEN @ + 1 ELSE @]
               /\ total_blocks' = [total_blocks EXCEPT ![w] =
                                      @ + process_file_blocks(e)]
               /\ errors_count' = [errors_count EXCEPT ![w] =
                                      IF process_file_ok(e) THEN @ ELSE @ + 1]
               /\ UNCHANGED << inner, local_work_delta >>
       /\ IF last
          THEN /\ dirs_processed' = [dirs_processed EXCEPT ![w] = @ + 1]
               /\ JobDone(w)
          ELSE /\ entries' = [entries EXCEPT ![w] = @ + 1]
               /\ UNCHANGED << pc, job, dirs_processed >>
    /\ UNCHANGED << config, injector, global_job_counter, idle_cycles,
                    victim, loaded, taken, listed, panicked, coord >>

(***************************************************************************)
(* A worker thread panics: it stops where it is, its unpublished           *)
(* local_work_delta is lost, the jobs of its deque stay stealable.         *)
(***************************************************************************)
Panic(w) ==
    /\ panicked = {}
    /\ pc[w] \notin {"done", "panicked"}
    /\ pc' = [pc EXCEPT ![w] = "panicked"]
    /\ panicked' = {w}
    /\ UNCHANGED << config, injector, inner, global_job_counter, idle_cycles,
                    local_work_delta, job, entries, victim, loaded, stats,
                    taken, listed, coord >>

(***************************************************************************)
(* Multithreaded::walk after the spawn.  Joining a handle only waits for   *)
(* its thread, so the joins of the worker handles are one step taken once  *)
(* every worker has returned or panicked; the results of the workers are   *)
(* dropped.  The sum is taken over the processor threads.  The sending     *)
(* half of each channel is owned by the worker; worker.rs holds no send,   *)
(* so a processor receives some set of entries of the tree, none included. *)
(***************************************************************************)
BlockBytes == 512

RECURSIVE process_worker(_)
process_worker(S) ==
    IF S = {} THEN 0
    ELSE LET n == CHOOSE x \in S : TRUE IN
         (IF process_file_ok(n) /\ ~is_special_file(tree[n].kind)
          THEN tree[n].blocks * BlockBytes ELSE 0)
           + process_worker(S \ {n})

JoinWorkers ==
    /\ walk_pc = "workers"
    /\ \A w \in Workers : pc[w] \in {"done", "panicked"}
    /\ walk_pc' = "procs"
    /\ UNCHANGED << config, injector, inner, global_job_counter, pc,
                    idle_cycles, local_work_delta, job, entries, victim,
                    loaded, stats, taken, listed, panicked, joined,
                    total_size, walk_result >>

\* one handle.join() of proc_handles; after the last one walk prints the
\* total and returns Ok(())
JoinProcessor ==
    /\ walk_pc = "procs"
    /\ \E received \in SUBSET (1..Len(tree)) :
           total_size' = total_size + process_worker(received)
    /\ joined' = joined + 1
    /\ IF joined + 1 = num_workers
       THEN walk_pc' = "returned" /\ walk_result' = "Ok"
       ELSE UNCHANGED << walk_pc, walk_result >>
    /\ UNCHANGED << config, injector, inner, global_job_counter, pc,
                    idle_cycles, local_work_delta, job, entries, victim,
                    loaded, stats, taken, listed, panicked >>

Step(w) ==
    \/ FindLocal(w)
    \/ StealVictim(w)
    \/ StealRetry(w)
    \/ StealGlobal(w)
    \/ SyncDelta(w)
    \/ TermCounter(w)
    \/ TermInner(w)
    \/ TermInjector(w)
    \/ TermStealers(w)
    \/ ProcessJob(w)
    \/ ProcessEntry(w)

Next ==
    \/ \E w \in Workers : FindLocal(w)
    \/ \E w \in Workers : StealVictim(w)
    \/ \E w \in Workers : StealRetry(w)
    \/ \E w \in Workers : StealGlobal(w)
    \/ \E w \in Workers : SyncDelta(w)
    \/ \E w \in Workers : TermCounter(w)
    \/ \E w \in Workers : TermInner(w)
    \/ \E w \in Workers : TermInjector(w)
    \/ \E w \in Workers : TermStealers(w)
    \/ \E w \in Workers : ProcessJob(w)
    \/ \E w \in Workers : ProcessEntry(w)
    \/ JoinWorkers
    \/ JoinProcessor

Spec == Init /\ [][Next]_vars

AllWorkers == 0..(MaxWorkers - 1)

\* OS threads: every worker that can take a step eventually takes one.
FairSpec == Spec /\ \A w \in AllWorkers : WF_vars(w \in Workers /\ Step(w))

NextPanic ==
    \/ Next
    \/ \E w \in Workers : Panic(w)

\* the walk of Multithreaded::new: max_depth is None
PanicInit == Init /\ max_depth = {}

PanicSpec ==
    /\ PanicInit /\ [][NextPanic]_vars
    /\ \A w \in AllWorkers : WF_vars(w \in Workers /\ Step(w))

(***************************************************************************)
(* find_work among three workers.  Every worker has two peers, so that a   *)
(* pass of steal_from_victims has a first and a second stealer.  The       *)
(* workers are followed through find_work and process_job for their first  *)
(* IdleCap idle cycles in a row, which lie in the spin phase of run_loop:   *)
(* find_work reads neither idle_cycles nor the termination counter.        *)
(***************************************************************************)
FindWorkers == 3
IdleCap == 2

FindInit == walk_start({FindWorkers})

FindNext ==
    \/ \E w \in Workers : FindLocal(w)
    \/ \E w \in Workers : StealVictim(w)
    \/ \E w \in Workers : StealRetry(w)
    \/ \E w \in Workers : StealGlobal(w) /\ idle_cycles'[w] <= IdleCap
    \/ \E w \in Workers : ProcessJob(w)
    \/ \E w \in Workers : ProcessEntry(w)

FindSpec == FindInit /\ [][FindNext]_vars

TypeOK ==
    /\ global_job_counter \in Int
    /\ \A w \in Workers : pc[w] \in {"find", "victims", "global", "sync",
           "term", "term_inner", "term_injector", "term_stealers", "job",
           "entry", "done", "panicked"}

(***************************************************************************)
(* Vocabulary of the properties.                                           *)
(***************************************************************************)
RECURSIVE SumWorkers(_, _)
SumWorkers(f, n) == IF n = 0 THEN 0 ELSE f[n - 1] + SumWorkers(f, n - 1)

RECURSIVE SumNodes(_, _)
SumNodes(S, t) ==
    IF S = {} THEN 0
    ELSE LET n == CHOOSE x \in S : TRUE
         IN t[n].blocks + SumNodes(S \ {n}, t)

TreeNodes == 1..Len(tree)

\* the directory whose listing holds n (the root has none)
Parent(n) == CHOOSE p \in TreeNodes : \E i \in 1..Len(tree[p].kids) : tree[p].kids[i] = n

RECURSIVE Depth(_)
Depth(n) == IF n = Root THEN 0 ELSE 1 + Depth(Parent(n))

\* a directory the walk lists: it opens, and it lies within the depth limit
Listable(n) ==
    /\ tree[n].kind = "dir"
    /\ \A max \in max_depth : Depth(n) <= max

\* n is among the entries that the listing of its directory yields
Yielded(n) ==
    \E i \in 1..Len(read_dir_items(Parent(n))) :
        read_dir_items(Parent(n))[i] = n

\* an entry the walk reaches: every directory above it is listed, and the
\* listing yields the entry
RECURSIVE Reachable(_)
Reachable(n) ==
    n = Root \/ (Listable(Parent(n)) /\ Reachable(Parent(n)) /\ Yielded(n))

\* the answer of a single-threaded walk: the blocks of the reachable regular
\* files
ReferenceBlocks ==
    SumNodes({n \in TreeNodes : Reachable(n) /\ tree[n].kind = "file"}, tree)

AllDone == \A w \in Workers : pc[w] = "done"
Busy(w) == pc[w] \in {"job", "entry"}
QueuesEmpty == injector = << >> /\ \A w \in Workers : inner[w] = << >>

\* a tree that holds a directory below the depth limit
HasDeepDir ==
    \E n \in TreeNodes : \E max \in max_depth :
        is_dir_type(tree[n].kind) /\ Depth(n) > max

\* every listing succeeds in full: each directory opens, each entry is read
\* and typed
AllReadable ==
    \A n \in TreeNodes :
        tree[n].kind \notin {"nodir", "notype", "badent", "missing"}

\* the workers whose handle joins with Ok
JoinedOk == {w \in Workers : pc[w] = "done"}

RECURSIVE SumOver(_, _)
SumOver(f, S) ==
    IF S = {} THEN 0
    ELSE LET w == CHOOSE x \in S : TRUE IN f[w] + SumOver(f, S \ {w})

(***************************************************************************)
(* C1: with max_depth unset, under fair scheduling, every worker           *)
(* eventually leaves run_loop, having read the termination counter as 0.   *)
(***************************************************************************)
C1_Termination ==
    (max_depth = {}) => <>(\A w \in Workers : pc[w] = "done" /\ loaded[w] = 0)

C1_Witness ==
    /\ max_depth = {} /\ tree = TreeErrs /\ num_workers = MaxWorkers
    /\ AllDone /\ \A w \in Workers : loaded[w] = 0

(***************************************************************************)
(* C2: a worker leaves run_loop only in global quiescence: once a worker   *)
(* has exited no worker is processing a job and every queue is empty.      *)
(***************************************************************************)
C2_ExitOnlyWhenQuiescent ==
    \A w \in Workers :
        pc[w] = "done" => QueuesEmpty /\ \A u \in Workers : ~Busy(u)

(***************************************************************************)
(* C3: the termination counter is 0 only if no work remains: no job in a   *)
(* queue or the injector, no job being processed.                          *)
(***************************************************************************)
C3_ZeroOnlyWhenNoWork ==
    global_job_counter = 0 => QueuesEmpty /\ \A u \in Workers : ~Busy(u)

(***************************************************************************)
(* C4: when all workers have exited run_loop the termination counter is 0. *)
(***************************************************************************)
C4_CounterZeroAtExit == AllDone => global_job_counter = 0

C4_Witness ==
    /\ AllDone /\ max_depth = {} /\ num_workers = MaxWorkers
    /\ tree = TreeFork /\ global_job_counter = 0

(***************************************************************************)
(* C5: once all workers have exited, the sum of their total_blocks is the  *)
(* answer of the single-threaded reference walk, whatever N and schedule.  *)
(***************************************************************************)
C5_TotalMatchesReference ==
    AllDone => SumWorkers(total_blocks, num_workers) = ReferenceBlocks

C5_Witness ==
    /\ AllDone /\ num_workers = MaxWorkers /\ tree = TreeFork
    /\ total_blocks[0] > 0 /\ dirs_processed[1] > 0

(***************************************************************************)
(* C6: every job is consumed exactly once: find_work never returns the     *)
(* same directory twice, so no directory is listed twice.                  *)
(***************************************************************************)
C6_JobTakenOnce == \A n \in Nodes : taken[n] <= 1 /\ listed[n] <= 1

C6_Witness ==
    /\ num_workers = MaxWorkers /\ tree = TreeFork
    /\ \A n \in 1..3 : taken[n] = 1
    /\ job[1].node = 2 /\ job[0].node = 3

(***************************************************************************)
(* C7: the value should_terminate loads from the termination counter is    *)
(* never negative.                                                         *)
(***************************************************************************)
C7_NeverReadNegative == \A w \in Workers : loaded[w] >= 0

(***************************************************************************)
(* C8: with max_depth set and directories below the limit, all workers     *)
(* still eventually exit run_loop with the termination counter at 0.       *)
(***************************************************************************)
C8_DepthCutoffTerminates ==
    (max_depth # {} /\ HasDeepDir) => <>(AllDone /\ global_job_counter = 0)

(***************************************************************************)
(* C9: if one worker panics (max_depth unset), the remaining workers still *)
(* finish the walk and exit run_loop, so that the coordinator joins them.  *)
(***************************************************************************)
C9_SurvivorsExit ==
    (max_depth = {}) => <>(\A w \in Workers : pc[w] \in {"done", "panicked"})

(***************************************************************************)
(* C10: with max_depth unset and every listing succeeding, once all        *)
(* workers have exited the sum of dirs_processed + files_processed is the  *)
(* number of entries of the tree, root included.                           *)
(***************************************************************************)
C10_EntriesCounted ==
    (AllDone /\ max_depth = {} /\ AllReadable) =>
        SumWorkers(dirs_processed, num_workers)
          + SumWorkers(files_processed, num_workers) = Len(tree)

C10_Witness ==
    /\ AllDone /\ max_depth = {} /\ num_workers = MaxWorkers
    /\ tree = TreeMixed /\ files_processed[0] = 4

(***************************************************************************)
(* C11: when the root path is a regular file the root job is seeded with   *)
(* depth 0 and is_dir = false, and the walk ends with files_processed = 1   *)
(* and total_blocks equal to the block count of that file.                 *)
(***************************************************************************)
C11_RootFileCounted ==
    tree[Root].kind = "file" =>
        /\ \A i \in 1..Len(injector) :
               injector[i].node = Root =>
                   injector[i].depth = 0 /\ ~injector[i].is_dir
        /\ AllDone =>
               /\ SumWorkers(files_processed, num_workers) = 1
               /\ SumWorkers(total_blocks, num_workers) = tree[Root].blocks

(***************************************************************************)
(* C12: when the root path does not exist, walk returns a fatal error      *)
(* instead of a total.                                                     *)
(***************************************************************************)
C12_MissingRootIsFatal ==
    (tree[Root].kind = "missing" /\ walk_pc = "returned") =>
        walk_result = "Err"

(***************************************************************************)
(* C13: the total produced by walk is the sum of the total_blocks of the   *)
(* WorkerResult of every worker whose join succeeded.                      *)
(***************************************************************************)
C13_TotalIsSumOfResults ==
    walk_pc = "returned" => total_size = SumOver(total_blocks, JoinedOk)

(***************************************************************************)
(* C14: total_blocks only ever grows by the block count of a regular file, *)
(* at the step that processes that file: a directory job never adds the    *)
(* blocks of the directory, and a special entry (symlink, FIFO, socket,    *)
(* device) leaves total_blocks unchanged.                                  *)
(***************************************************************************)
C14_OnlyRegularFileBlocks ==
    [][\A w \in Workers :
          \/ total_blocks'[w] = total_blocks[w]
          \/ /\ pc[w] = "entry"
             /\ LET e == tree[job[w].node].kids[entries[w]] IN
                   /\ tree[e].kind = "file"
                   /\ total_blocks'[w] = total_blocks[w] + tree[e].blocks
          \/ /\ pc[w] = "job" /\ ~job[w].is_dir
             /\ tree[job[w].node].kind = "file"
             /\ total_blocks'[w] = total_blocks[w] + tree[job[w].node].blocks]_vars

C14_Witness ==
    /\ tree = TreeMixed /\ AllDone
    /\ SumWorkers(dirs_processed, num_workers) = 1
    /\ SumWorkers(files_processed, num_workers) = 4
    /\ SumWorkers(total_blocks, num_workers) = 16

(***************************************************************************)
(* C15: in every reachable state the termination counter plus the sum of   *)
(* the local deltas of all workers is the number of jobs enqueued and not  *)
(* yet consumed: the jobs in the injector and in the worker queues, and    *)
(* the jobs found whose process_job has not started.                       *)
(***************************************************************************)
Outstanding ==
    Len(injector) + SumOver([w \in Workers |-> Len(inner[w])], Workers)
      + Cardinality({w \in Workers : pc[w] = "job"})

C15_CounterAccounting ==
    global_job_counter + SumWorkers(local_work_delta, num_workers)
        = Outstanding

(***************************************************************************)
(* C16: every call of process_job, the depth-exceeded early return         *)
(* included, lowers local_work_delta by exactly 1 for the job it consumed. *)
(***************************************************************************)
C16_EveryCallDecrements ==
    [][\A w \in Workers :
          (pc[w] = "job" /\ pc'[w] # "job") =>
              local_work_delta'[w] = local_work_delta[w] - 1]_vars

(***************************************************************************)
(* C17: the depth cutoff is not an error: when a worker skips a job whose  *)
(* depth exceeds max_depth, errors_count is left unchanged.                *)
(***************************************************************************)
C17_CutoffIsNotAnError ==
    [][\A w \in Workers :
          (pc[w] = "job" /\ pc'[w] # "job" /\ depth_exceeded(job[w])) =>
              errors_count'[w] = errors_count[w]]_vars

(***************************************************************************)
(* C18: with max_depth = m no directory at depth > m is ever listed, and   *)
(* once no job is queued or in hand the total dirs_processed is exactly    *)
(* the number of readable directories at depth <= m.                       *)
(***************************************************************************)
Quiescent == QueuesEmpty /\ \A w \in Workers : ~Busy(w)

ListedDirs == {n \in TreeNodes : Reachable(n) /\ Listable(n)}

C18_DepthLimitsListing ==
    /\ \A n \in Nodes :
           listed[n] > 0 => \A max \in max_depth : Depth(n) <= max
    /\ SumWorkers(dirs_processed, num_workers) <= Cardinality(ListedDirs)
    /\ Quiescent =>
           SumWorkers(dirs_processed, num_workers) = Cardinality(ListedDirs)

C18_Witness ==
    /\ max_depth = {1} /\ tree = TreeChain /\ Quiescent
    /\ taken[3] = 1 /\ listed[3] = 0
    /\ SumWorkers(dirs_processed, num_workers) = 2

(***************************************************************************)
(* C19: with max_depth = m no entry at depth > m contributes to            *)
(* files_processed or to total_blocks: the counts and the block sum cover  *)
(* only the entries at depth <= m.                                         *)
(***************************************************************************)
FilesWithin(m) ==
    {n \in TreeNodes : ~is_dir_type(tree[n].kind) /\ Depth(n) <= m}

C19_NothingBeyondDepth ==
    \A m \in max_depth :
        /\ SumWorkers(files_processed, num_workers)
               <= Cardinality(FilesWithin(m))
        /\ SumWorkers(total_blocks, num_workers)
               <= SumNodes({n \in FilesWithin(m) : tree[n].kind = "file"}, tree)

(***************************************************************************)
(* C20: when a directory job cannot be opened the job is still consumed    *)
(* (local_work_delta - 1), errors_count grows by exactly 1, dirs_processed *)
(* and total_blocks are unchanged, no child job is enqueued and the worker *)
(* goes on with its loop.                                                  *)
(***************************************************************************)
C20_OpenFailure ==
    [][\A w \in Workers :
          ( /\ pc[w] = "job" /\ pc'[w] # "job"
            /\ ~depth_exceeded(job[w]) /\ job[w].is_dir
            /\ tree[job[w].node].kind # "dir" ) =>
              /\ local_work_delta'[w] = local_work_delta[w] - 1
              /\ errors_count'[w] = errors_count[w] + 1
              /\ dirs_processed'[w] = dirs_processed[w]
              /\ total_blocks'[w] = total_blocks[w]
              /\ listed' = listed
              /\ inner' = inner /\ injector' = injector
              /\ pc'[w] = "find"]_vars

C20_Witness ==
    /\ tree = TreeErrs /\ max_depth = {}
    /\ taken[2] = 1 /\ listed[2] = 0
    /\ \E w \in Workers :
          /\ pc[w] = "find" /\ job[w] = NoJob
          /\ errors_count[w] >= 1 /\ dirs_processed[w] = 0

(***************************************************************************)
(* C21: while a directory is listed, an entry whose file type cannot be    *)
(* determined is ignored (no job pushed, no file processed) and counted as *)
(* an error: errors_count grows by 1 for each such entry.                  *)
(***************************************************************************)
\* the entry of the listing that worker w handles next
CurrentEntry(w) == tree[job[w].node].kids[entries[w]]

\* worker w, inside a listing, handles one entry in this step
EntryStep(w) ==
    pc[w] = "entry" /\ (entries'[w] # entries[w] \/ pc'[w] # pc[w])

C21_UntypedEntryCounted ==
    [][\A w \in Workers :
          (EntryStep(w) /\ tree[CurrentEntry(w)].kind = "notype") =>
              /\ inner'[w] = inner[w]
              /\ files_processed'[w] = files_processed[w]
              /\ errors_count'[w] = errors_count[w] + 1]_vars

(***************************************************************************)
(* C22: find_work tries its sources in a fixed order: a job comes from a   *)
(* peer only when the own queue is empty, and from the injector only when  *)
(* the own queue is empty and one full pass over the peers in index order, *)
(* the own index skipped, yielded no job; a worker never steals from its   *)
(* own stealer.                                                            *)
(***************************************************************************)
\* the peers of w in index order: the first one, and the one after v
FirstPeer(w) == IF w = 0 THEN 1 ELSE 0
NextPeer(w, v) == IF v + 1 = w THEN v + 2 ELSE v + 1

C22_FindWorkOrder ==
    [][\A w \in Workers :
          \* steals are tried only on an empty own queue, never on oneself
          /\ pc[w] \in {"victims", "global"} => inner[w] = << >>
          /\ pc[w] = "victims" => victim[w] \in Workers \ {w}
          \* the own queue comes first
          /\ (pc[w] = "find" /\ pc'[w] # "find") =>
                 IF inner[w] # << >>
                 THEN pc'[w] = "job" /\ job'[w] = Head(inner[w])
                 ELSE IF FirstPeer(w) < num_workers
                      THEN pc'[w] = "victims" /\ victim'[w] = FirstPeer(w)
                      ELSE pc'[w] = "global"
          \* the peers follow in index order, up to the first job
          /\ (pc[w] = "victims" /\ pc'[w] = "job") =>
                 /\ inner[victim[w]] # << >>
                 /\ job'[w] = Head(inner[victim[w]])
          /\ (pc[w] = "victims" /\ pc'[w] = "victims"
                 /\ victim'[w] # victim[w]) =>
                 /\ job'[w] = NoJob
                 /\ victim'[w] = NextPeer(w, victim[w])
          \* the injector comes last, after the last peer gave nothing
          /\ (pc[w] = "victims" /\ pc'[w] = "global") =>
                 /\ job'[w] = NoJob
                 /\ NextPeer(w, victim[w]) >= num_workers
          /\ (pc[w] # "job" /\ pc'[w] = "job") =>
                 pc[w] \in {"find", "victims", "global"}
          /\ (pc[w] = "global" /\ pc'[w] = "job") =>
                 injector # << >> /\ job'[w] = Head(injector)]_vars

\* worker 2 lists the root and has pushed its first directory; worker 1,
\* which never had a job of its own, holds that directory: it passed the
\* empty queue of peer 0, skipped its own index and stole from peer 2
C22_Witness ==
    /\ tree = TreeFork /\ num_workers = FindWorkers
    /\ pc[2] = "entry" /\ job[2].node = Root
    /\ pc[1] = "job" /\ job[1].node = 2
    /\ dirs_processed[1] = 0 /\ inner[1] = << >>
    /\ taken[2] = 1 /\ inner[0] = << >> /\ job[0] = NoJob

(***************************************************************************)
(* C23: the own queue of a worker is LIFO: a local pop returns the job     *)
(* most recently pushed by that worker among those still in its queue.     *)
(***************************************************************************)
C23_LocalPopIsLifo ==
    [][\A w \in Workers :
          (pc[w] = "find" /\ pc'[w] = "job") =>
              job'[w] = inner[w][Len(inner[w])]]_vars

(***************************************************************************)
(* C24: a worker publishes its local_work_delta before it queries          *)
(* should_terminate: at every evaluation of should_terminate, and at exit, *)
(* the own local_work_delta is 0, also after the worker found new work     *)
(* past the sync phase.                                                    *)
(***************************************************************************)
InShouldTerminate(w) ==
    pc[w] \in {"term", "term_inner", "term_injector", "term_stealers"}

C24_PublishedBeforeCheck ==
    \A w \in Workers :
        (InShouldTerminate(w) \/ pc[w] = "done") => local_work_delta[w] = 0

\* worker 1 read the counter as 0 between its two publications of -1, so it
\* found the second job after a should_terminate, and checks again
C24_Witness ==
    /\ tree = TreeFork /\ num_workers = MaxWorkers /\ max_depth = {}
    /\ pc[1] = "term" /\ loaded[1] = 0 /\ global_job_counter = -1
    /\ dirs_processed[1] = 2 /\ local_work_delta[1] = 0
    /\ local_work_delta[0] = 1

(***************************************************************************)
(* C25: should_terminate returns true if and only if the counter it reads  *)
(* is exactly 0, the own queue is empty, the injector is empty and every   *)
(* stealer reports length 0; a worker never exits run_loop without such a  *)
(* true result.                                                            *)
(***************************************************************************)
\* worker w performs one read of should_terminate in this step
TermStep(w) ==
    InShouldTerminate(w) /\ (pc'[w] # pc[w] \/ victim'[w] # victim[w])

C25_ShouldTerminate ==
    [][\A w \in Workers :
          \* each conjunct is read in turn; the first false one ends the
          \* evaluation with false and the worker stays in the loop
          /\ (TermStep(w) /\ pc[w] = "term") =>
                 /\ loaded'[w] = global_job_counter
                 /\ pc'[w] = IF global_job_counter = 0
                             THEN "term_inner" ELSE "find"
          /\ (TermStep(w) /\ pc[w] = "term_inner") =>
                 pc'[w] = IF inner[w] = << >> THEN "term_injector" ELSE "find"
          /\ (TermStep(w) /\ pc[w] = "term_injector") =>
                 /\ pc'[w] = IF injector = << >>
                             THEN "term_stealers" ELSE "find"
                 /\ injector = << >> => victim'[w] = 0
          /\ (TermStep(w) /\ pc[w] = "term_stealers") =>
                 IF Len(inner[victim[w]]) # 0 THEN pc'[w] = "find"
                 ELSE IF victim[w] + 1 < num_workers
                      THEN pc'[w] = pc[w] /\ victim'[w] = victim[w] + 1
                      ELSE pc'[w] = "done"
          \* the only way out of run_loop is the last true conjunct
          /\ (pc[w] # "done" /\ pc'[w] = "done") =>
                 /\ pc[w] = "term_stealers"
                 /\ victim[w] = num_workers - 1
                 /\ Len(inner[victim[w]]) = 0
                 /\ loaded[w] = 0 /\ inner[w] = << >> /\ injector = << >>
          /\ pc[w] = "done" =>
                 loaded[w] = 0 /\ inner[w] = << >> /\ injector = << >>]_vars

\* worker 0 left with a true result, the last evaluation of worker 1 read a
\* counter other than 0 and was false
C25_Witness ==
    /\ num_workers = MaxWorkers /\ max_depth = {}
    /\ pc[0] = "done" /\ loaded[0] = 0
    /\ pc[1] = "find" /\ idle_cycles[1] >= ResetCycle /\ loaded[1] # 0

(***************************************************************************)
(* C26: no job is ever stranded: a job in the local queue of a worker has  *)
(* an owner that has not exited, a job in the injector implies a worker    *)
(* that has not exited, and when the last worker has exited every queue is *)
(* empty and every enqueued job has been taken.                            *)
(***************************************************************************)
\* the jobs enqueued once all listings are over: the root and the directory
\* entries of the listed directories
Enqueued ==
    {n \in TreeNodes :
        n = Root \/ ( /\ is_dir_type(tree[n].kind)
                      /\ listed[Parent(n)] > 0 /\ Yielded(n) )}

C26_NoJobStranded ==
    /\ \A w \in Workers : inner[w] # << >> => pc[w] # "done"
    /\ injector # << >> => \E w \in Workers : pc[w] # "done"
    /\ AllDone => QueuesEmpty /\ \A n \in Enqueued : taken[n] >= 1

\* worker 0 has exited while worker 1 still holds a queued job
C26_Witness ==
    /\ tree = TreeFork /\ num_workers = MaxWorkers /\ max_depth = {}
    /\ pc[0] = "done" /\ pc[1] # "done" /\ inner[1] # << >>

====
